---- MODULE Spec2Model ----
(***************************************************************************)
(* A model of crono's scheduling engine (package scheduler), its runner    *)
(* (Engine.runOnce over execer.RunShell) and its schedule calculator       *)
(* (NextRun, parseDur, nextAtTime).                                        *)
(*                                                                         *)
(* Text is a sequence of one-character strings, so that the prefix,        *)
(* suffix and substring tests of NextRun are computed the way the code     *)
(* computes them.  Instants and durations are integers counted in ticks    *)
(* of a quarter of a second since a Monday 00:00 of the process's local    *)
(* zone: a quarter second is the coarsest grain at which bo/2 and bo/4 of  *)
(* runOnce are exact for the whole-second durations the DSL produces.      *)
(***************************************************************************)
EXTENDS Integers, Sequences, FiniteSets, TLC

VARIABLES
    prog,        \* Engine.prog.Jobs: the Program, a sequence of Job records
    zoneFold,    \* the host resolves zone names whatever their letter case
    pc,          \* where Engine.Run is
    now,         \* the wall clock, time.Now()
    items,       \* Engine.Run's items: one [next] per job
    busy,        \* Engine.busy: the set of job names present in the map
    cancelled,   \* the root context ctx is done
    inv,         \* the goroutines started by Engine.Run: slot -> invocation
    event,       \* the last thing Engine.Run did at a firing
    preview      \* nextCmd's loop over one job: the `next` command

vars == <<prog, zoneFold, pc, now, items, busy, cancelled, inv, event, preview>>

\* ------------------------------------------------------------------ time

Second == 4
Minute == 60 * Second
Hour == 60 * Minute
Day == 24 * Hour

\* time.Time.Add saturates at the smallest representable instant; the
\* model's instants are narrower than Go's: FloorHours hours before the
\* epoch.
FloorHours == 1
MinInstant == 0 - FloorHours * Hour

Max(a, b) == IF a > b THEN a ELSE b
min(a, b) == IF a < b THEN a ELSE b

\* t.Add(d)
Add(t, d) == Max(MinInstant, t + d)

\* ------------------------------------------------------------------ text

\* The value of a one-element set: Only({F(v) : v \in {e}}) is F(e), with e
\* evaluated once.
Only(S) == CHOOSE x \in S : TRUE

Digits == <<"0", "1", "2", "3", "4", "5", "6", "7", "8", "9">>
Upper == <<"A", "B", "C", "D", "E", "F", "G", "H", "I", "J", "K", "L", "M",
           "N", "O", "P", "Q", "R", "S", "T", "U", "V", "W", "X", "Y", "Z">>
Lower == <<"a", "b", "c", "d", "e", "f", "g", "h", "i", "j", "k", "l", "m",
           "n", "o", "p", "q", "r", "s", "t", "u", "v", "w", "x", "y", "z">>

IsDigit(c) == \E i \in 1..10 : Digits[i] = c
DigitVal(c) == (CHOOSE i \in 1..10 : Digits[i] = c) - 1

\* strings.ToLower
ToLowerChar(c) ==
    IF \E i \in 1..26 : Upper[i] = c
    THEN Lower[CHOOSE i \in 1..26 : Upper[i] = c]
    ELSE c
ToLower(s) == [i \in 1..Len(s) |-> ToLowerChar(s[i])]

\* s[n:]
Drop(s, n) == SubSeq(s, n + 1, Len(s))

\* strings.HasPrefix, strings.HasSuffix, strings.TrimPrefix
HasPrefix(s, p) == Len(s) >= Len(p) /\ SubSeq(s, 1, Len(p)) = p
HasSuffix(s, p) == Len(s) >= Len(p) /\ SubSeq(s, Len(s) - Len(p) + 1, Len(s)) = p
TrimPrefix(s, p) == IF HasPrefix(s, p) THEN Drop(s, Len(p)) ELSE s

\* strings.Index, counted from 1; 0 when sub does not occur
Index(s, sub) ==
    IF \E i \in 1..(Len(s) - Len(sub) + 1) : SubSeq(s, i, i + Len(sub) - 1) = sub
    THEN CHOOSE i \in 1..(Len(s) - Len(sub) + 1) :
            /\ SubSeq(s, i, i + Len(sub) - 1) = sub
            /\ \A k \in 1..(i - 1) : SubSeq(s, k, k + Len(sub) - 1) # sub
    ELSE 0
Contains(s, sub) == Index(s, sub) # 0

\* strings.TrimSpace
TrimSpace(s) ==
    IF \A i \in 1..Len(s) : s[i] = " " THEN <<>>
    ELSE SubSeq(s, CHOOSE i \in 1..Len(s) : s[i] # " " /\ \A k \in 1..(i - 1) : s[k] = " ",
                   CHOOSE i \in 1..Len(s) : s[i] # " " /\ \A k \in (i + 1)..Len(s) : s[k] = " ")

\* strings.Fields: the maximal runs of non-space characters
RECURSIVE Fields(_)
Fields(s) ==
    LET Split(t, i) ==
            IF t = <<>> THEN <<>>
            ELSE IF i = 0 THEN <<t>>
            ELSE <<SubSeq(t, 1, i - 1)>> \o Fields(Drop(t, i))
    IN  Only({Split(t, Index(t, <<" ">>)) : t \in {TrimSpace(s)}})

\* strings.SplitN(s, ":", 2)
SplitColon(s) ==
    LET Split(i) == IF i = 0 THEN <<s>> ELSE <<SubSeq(s, 1, i - 1), Drop(s, i)>>
    IN  Only({Split(i) : i \in {Index(s, <<":">>)}})

\* How many digits s starts with, and how many characters that are none
DigitsLen(s) ==
    CHOOSE k \in 0..Len(s) :
        (\A i \in 1..k : IsDigit(s[i])) /\ (k < Len(s) => ~IsDigit(s[k + 1]))
UnitLen(s) ==
    CHOOSE k \in 0..Len(s) :
        (\A i \in 1..k : ~IsDigit(s[i])) /\ (k < Len(s) => IsDigit(s[k + 1]))

\* The value of the first n characters of s, all digits
DecVal(s, n) ==
    LET val[k \in 0..n] == IF k = 0 THEN 0 ELSE 10 * val[k - 1] + DigitVal(s[k])
    IN  val[n]

\* fmt.Sscanf(s, "%d", &x) on x = 0: an optional sign and digits; x stays 0
\* when there are no digits.
ScanInt(s) ==
    LET Signed(neg, body) ==
            Only({IF n = 0 THEN 0 ELSE IF neg THEN 0 - DecVal(body, n) ELSE DecVal(body, n) :
                  n \in {DigitsLen(body)}})
    IN  IF s # <<>> /\ s[1] \in {"-", "+"} THEN Signed(s[1] = "-", Drop(s, 1))
        ELSE Signed(FALSE, s)

\* ------------------------------------------------------- durations

\* time.ParseDuration's unit table, for the units a tick can express (ns, us
\* and ms are below the grain; no modelled text uses them).
UnitOf(u) ==
    CASE u = <<"s">> -> Second
      [] u = <<"m">> -> Minute
      [] u = <<"h">> -> Hour
      [] OTHER -> 0

\* The loop of time.ParseDuration over ([0-9]+[a-z]+)+, summing into d.
\* (Fractions are not modelled; no modelled text holds a ".".)
RECURSIVE ParseTerms(_, _)
ParseTerms(s, d) ==
    LET Term(n, u) ==
            IF n = 0 \/ u = 0 \/ UnitOf(SubSeq(s, n + 1, n + u)) = 0
            THEN [ok |-> FALSE, d |-> 0]
            ELSE ParseTerms(Drop(s, n + u), d + DecVal(s, n) * UnitOf(SubSeq(s, n + 1, n + u)))
    IN  IF s = <<>> THEN [ok |-> TRUE, d |-> d]
        ELSE Only({Only({Term(n, u) : u \in {UnitLen(Drop(s, n))}}) : n \in {DigitsLen(s)}})

\* time.ParseDuration: [-+]?([0-9]+[a-z]+)+, or "0"
ParseDuration(s) ==
    LET Signed(neg, body) ==
            IF body = <<"0">> THEN [ok |-> TRUE, d |-> 0]
            ELSE IF body = <<>> THEN [ok |-> FALSE, d |-> 0]
            ELSE Only({IF r.ok /\ neg THEN [ok |-> TRUE, d |-> 0 - r.d] ELSE r :
                       r \in {ParseTerms(body, 0)}})
    IN  IF s # <<>> /\ s[1] \in {"-", "+"} THEN Signed(s[1] = "-", Drop(s, 1))
        ELSE Signed(FALSE, s)

\* parseDur without its fallback for the unit d
parseDur_noDays(s0) ==
    Only({IF n.ok THEN [kind |-> "ok", d |-> n.d] ELSE [kind |-> "err", d |-> 0] :
          n \in {ParseDuration(TrimSpace(s0))}})

\* parseDur.  kind is "ok", "err", or "panic" for the index out of range of
\* s[len(s)-1] on the empty string.
parseDur(s0) ==
    LET Dur(s, unit, value) ==
            Only({IF n.ok THEN [kind |-> "ok", d |-> n.d]
                  ELSE IF unit = "d"
                  THEN Only({IF h.ok THEN [kind |-> "ok", d |-> h.d * 24]
                             ELSE [kind |-> "err", d |-> 0] :
                             h \in {ParseDuration(value \o <<"h">>)}})
                  ELSE [kind |-> "err", d |-> 0] :
                  n \in {ParseDuration(value \o <<unit>>)}})
    IN  Only({IF s = <<>> THEN [kind |-> "panic", d |-> 0]
              ELSE Dur(s, s[Len(s)], SubSeq(s, 1, Len(s) - 1)) :
              s \in {TrimSpace(s0)}})

\* parseHH, parseMM: the number before (after) the colon, clamped
parseHH(hhmm) ==
    Only({IF h < 0 THEN 0 ELSE IF h > 23 THEN 23 ELSE h :
          h \in {ScanInt(SplitColon(hhmm)[1])}})

parseMM(hhmm) ==
    Only({IF Len(parts) < 2 THEN 0
          ELSE Only({IF m < 0 THEN 0 ELSE IF m > 59 THEN 59 ELSE m :
                     m \in {ScanInt(parts[2])}}) :
          parts \in {SplitColon(hhmm)}})

\* ------------------------------------------------------------ zones

\* time.Local is the zone the instants are counted in; the other zones of
\* the host's database, with their offsets from it (no zone change is
\* modelled).
ZoneDB == {[name |-> <<"E", "u", "r", "o", "p", "e", "/", "P", "a", "r", "i", "s">>,
            off |-> Hour],
           [name |-> <<"A", "s", "i", "a", "/", "T", "o", "k", "y", "o">>,
            off |-> 9 * Hour]}
LocalOff == 0

\* time.LoadLocation(name): NextRun hands it the lowercased name, which a
\* host resolves only where its zone lookup ignores the letter case.
LoadLocation(name) ==
    IF \E z \in ZoneDB : z.name = name \/ (zoneFold /\ ToLower(z.name) = name)
    THEN [ok |-> TRUE,
          off |-> (CHOOSE z \in ZoneDB :
                      z.name = name \/ (zoneFold /\ ToLower(z.name) = name)).off]
    ELSE [ok |-> FALSE, off |-> LocalOff]

\* time.Date(y, m, d, hh, mm, 0, 0, loc) for the calendar day of `in` in loc
DateAt(in, off, hh, mm) == ((in + off) \div Day) * Day + hh * Hour + mm * Minute - off

\* t.In(loc).Weekday(), Sunday = 0; the epoch is a Monday
Weekday(t, off) == (((t + off) \div Day) + 1) % 7
Monday == 1
Friday == 5

\* ------------------------------------------------------- calculator

\* nextAtTime's loop: next Monday to Friday
RECURSIVE NextWeekday(_, _)
NextWeekday(cand, off) ==
    IF Weekday(cand, off) >= Monday /\ Weekday(cand, off) <= Friday THEN cand
    ELSE Only({NextWeekday(c, off) : c \in {Add(cand, 24 * Hour)}})

\* nextAtTime keeping a candidate that equals from
nextAtTime_sameInstant(from, hhmm, off, weekdayOnly) ==
    Only({Only({IF weekdayOnly THEN NextWeekday(cand, off) ELSE cand :
                cand \in {IF today < from THEN Add(today, 24 * Hour) ELSE today}}) :
          today \in {DateAt(from, off, parseHH(hhmm), parseMM(hhmm))}})

\* nextAtTime: today's candidate, the next day's when it is not after from
nextAtTime(from, hhmm, off, weekdayOnly) ==
    Only({Only({IF weekdayOnly THEN NextWeekday(cand, off) ELSE cand :
                cand \in {IF ~(today > from) THEN Add(today, 24 * Hour) ELSE today}}) :
          today \in {DateAt(from, off, parseHH(hhmm), parseMM(hhmm))}})

\* The loop of the anchored form stopping at from itself
RECURSIVE AnchorLoop_notStrict(_, _, _)
AnchorLoop_notStrict(t, from, d) ==
    IF t >= from THEN [kind |-> "ok", t |-> t]
    ELSE IF d <= 0 THEN [kind |-> "hang", t |-> 0]
    ELSE Only({AnchorLoop_notStrict(u, from, d) : u \in {Add(t, d)}})

\* The loop of the anchored form: for !t.After(from) { t = t.Add(d) }.  It
\* does not end when d <= 0 and the anchor is not after from.
RECURSIVE AnchorLoop(_, _, _)
AnchorLoop(t, from, d) ==
    IF t > from THEN [kind |-> "ok", t |-> t]
    ELSE IF d <= 0 THEN [kind |-> "hang", t |-> 0]
    ELSE Only({AnchorLoop(u, from, d) : u \in {Add(t, d)}})

K_every == <<"e", "v", "e", "r", "y", " ">>
K_at == <<"a", "t", " ">>
K_in_at == <<" ", "a", "t", " ">>
K_every_day_at == <<"e", "v", "e", "r", "y", " ", "d", "a", "y", " ", "a", "t", " ">>
K_every_weekday_at ==
    <<"e", "v", "e", "r", "y", " ", "w", "e", "e", "k", "d", "a", "y", " ", "a", "t", " ">>
K_starting_at == <<" ", "s", "t", "a", "r", "t", "i", "n", "g", " ", "a", "t", " ">>

Err == [kind |-> "err", t |-> 0]

\* The first form of NextRun: "every 5m"
IsInterval(l) ==
    /\ HasPrefix(l, K_every)
    /\ \E c \in {"s", "m", "h", "d"} : HasSuffix(l, <<c>>)
    /\ ~Contains(l, K_in_at)

\* The second form: "at HH:MM [TZ]", "every day at", "every weekday at"
IsClock(l) ==
    HasPrefix(l, K_at) \/ HasPrefix(l, K_every_day_at) \/ HasPrefix(l, K_every_weekday_at)

\* The third form: "every 6h starting at 00:00 [TZ]"
IsAnchored(l) == HasPrefix(l, K_every) /\ Contains(l, K_starting_at)

NextRunInterval(l, from) ==
    Only({IF d.kind = "ok" THEN [kind |-> "ok", t |-> Add(from, d.d)]
          ELSE [kind |-> d.kind, t |-> 0] :
          d \in {parseDur(TrimPrefix(l, K_every))}})

NextRunClock(l, from) ==
    LET weekdayOnly == HasPrefix(l, K_every_weekday_at)
        rest == IF weekdayOnly THEN TrimPrefix(l, K_every_weekday_at)
                ELSE IF HasPrefix(l, K_every_day_at) THEN TrimPrefix(l, K_every_day_at)
                ELSE TrimPrefix(l, K_at)
        Zoned(parts, lo) ==
            IF ~lo.ok THEN Err
            ELSE [kind |-> "ok", t |-> nextAtTime(from, parts[1], lo.off, weekdayOnly)]
    IN  Only({IF Len(parts) = 0 THEN Err
              ELSE IF Len(parts) > 1
              THEN Only({Zoned(parts, lo) : lo \in {LoadLocation(parts[2])}})
              ELSE [kind |-> "ok", t |-> nextAtTime(from, parts[1], LocalOff, weekdayOnly)] :
              parts \in {Fields(rest)}})

NextRunAnchored(l, from) ==
    LET Anchor(d, hhmm, off) ==
            Only({AnchorLoop(base, from, d) :
                  base \in {DateAt(from, off, parseHH(hhmm), parseMM(hhmm))}})
        Timed(d, parts) ==
            IF Len(parts) = 0 THEN Err
            ELSE IF Len(parts) > 1
            THEN Only({Anchor(d, parts[1], IF lo.ok THEN lo.off ELSE LocalOff) :
                       lo \in {LoadLocation(parts[2])}})
            ELSE Anchor(d, parts[1], LocalOff)
        \* strings.Cut(l, " starting at ")
        Parts(i) ==
            Only({IF d.kind # "ok" THEN [kind |-> d.kind, t |-> 0]
                  ELSE Only({Timed(d.d, parts) :
                             parts \in {Fields(Drop(l, i + Len(K_starting_at) - 1))}}) :
                  d \in {parseDur(TrimPrefix(SubSeq(l, 1, i - 1), K_every))}})
    IN  Only({Parts(i) : i \in {Index(l, K_starting_at)}})

\* NextRun(expr, from): kind "ok" with the instant t, "err", "hang" (the call
\* never returns) or "panic".
NextRun(expr, from) ==
    LET Lowered(l) ==
            IF IsInterval(l) THEN NextRunInterval(l, from)
            ELSE IF IsClock(l) THEN NextRunClock(l, from)
            ELSE IF IsAnchored(l) THEN NextRunAnchored(l, from)
            ELSE Err
    IN  Only({Lowered(l) : l \in {ToLower(t) : t \in {TrimSpace(expr)}}})

\* ------------------------------------------------------------- jobs

\* dsl.Job, the fields Engine reads (Run and Env go to the shell unread)
Job(name, schedule, retryN, backoffA, backoffB, timeout, overlap) ==
    [Name |-> name, Schedule |-> schedule, RetryN |-> retryN, BackoffA |-> backoffA,
     BackoffB |-> backoffB, Timeout |-> timeout, Overlap |-> overlap]

X_5m == K_every \o <<"5", "m">>
X_10m == K_every \o <<"1", "0", "m">>
X_neg5m == K_every \o <<"-", "5", "m">>
X_0s == K_every \o <<"0", "s">>
X_week == K_every \o <<"w", "e", "e", "k">>
X_at0010 == K_at \o <<"0", "0", ":", "1", "0">>
Z_unknown == <<" ", "M", "a", "r", "s", "/", "P", "h", "o", "b", "o", "s">>
Z_paris == <<" ", "E", "u", "r", "o", "p", "e", "/", "P", "a", "r", "i", "s">>
X_10m_start == K_every \o <<"1", "0", "m">> \o K_starting_at \o <<"0", "0", ":", "0", "0">>

\* The jobs the engine is run on: schedule files that dsl.Parse accepts
\* (it takes any text as a schedule, and any name, repeated or not).
JobPool ==
    { Job("a", X_5m, 1, 1 * Second, 2 * Second, 0, "skip"),
      Job("b", X_10m, 0, 0, 0, 10 * Second, "queue"),
      Job("a", X_at0010, 1, 0, 0, 10 * Second, "cancel-prev"),
      Job("c", X_week, 0, 0, 0, 0, "skip"),
      Job("d", X_neg5m, 0, 0, 0, 0, "skip"),
      Job("e", X_10m_start \o Z_unknown, 0, 0, 0, 0, "skip"),
      Job("f", X_at0010 \o Z_unknown, 0, 0, 0, 0, "skip") }

MaxJobs == 2
Programs == UNION {[1..n -> JobPool] : n \in 0..MaxJobs}

\* The clock stops being advanced MaxMinutes minutes after the epoch.
MaxMinutes == 12
MaxTime == MaxMinutes * Minute

\* ----------------------------------------------------------- runner

Slots == 1..(MaxJobs + 1)

\* A slot no goroutine occupies
Free == [job |-> 0, pc |-> "free", attempt |-> 0, calls |-> 0, ctxDone |-> FALSE,
         timedOut |-> FALSE, lastErr |-> "none", sleep |-> 0, result |-> "none"]

\* runOnce up to its first execer.RunShell, for job index i
Started(i) ==
    [job |-> i, pc |-> "exec", attempt |-> 0, calls |-> 1, ctxDone |-> cancelled,
     timedOut |-> FALSE, lastErr |-> "none", sleep |-> 0, result |-> "none"]

\* backoffMin, backoffMax of runOnce, with the (1s, 30s) default
BackoffMin(j) == IF j.BackoffA = 0 /\ j.BackoffB = 0 THEN 1 * Second ELSE j.BackoffA
BackoffMax(j) == IF j.BackoffA = 0 /\ j.BackoffB = 0 THEN 30 * Second ELSE j.BackoffB

\* 1 << uint(n)
RECURSIVE Shl1(_)
Shl1(n) == IF n = 0 THEN 1 ELSE 2 * Shl1(n - 1)

\* The doubled backoff without the cap at backoffMax
Bo_uncapped(j, attempt) == Shl1(min(attempt, 6)) * BackoffMin(j)

\* bo of runOnce after the attempt-th failure
Bo(j, attempt) ==
    LET bo == Shl1(min(attempt, 6)) * BackoffMin(j)
    IN  IF bo > BackoffMax(j) THEN BackoffMax(j) ELSE bo

\* rand.Int63n(n): any of 0 .. n-1
Int63n(n) == 0..(n - 1)

\* the sleeps runOnce may choose after the attempt-th failure
Sleeps(j, attempt) ==
    {Bo(j, attempt) \div 2 + jitter : jitter \in Int63n(Bo(j, attempt) \div 4 + 1)}

\* Giving up one attempt early: attempt >= j.RetryN
Exhausted_early(j, attempt) == attempt >= j.RetryN

\* attempt > j.RetryN
Exhausted(j, attempt) == attempt > j.RetryN

\* runOnce from the return of RunShell with error err to its next
\* suspension: the invocations r may become
AfterExec(r, err) ==
    LET j == prog[r.job]
        a == r.attempt + 1
    IN  IF err = "nil"
        THEN {[r EXCEPT !.pc = "returned", !.result = "success", !.lastErr = "nil"]}
        ELSE IF Exhausted(j, a)
        THEN {[r EXCEPT !.pc = "returned", !.result = "abandon", !.lastErr = err,
                        !.attempt = a]}
        ELSE {[r EXCEPT !.pc = "backoff", !.lastErr = err, !.attempt = a, !.sleep = s] :
              s \in Sleeps(j, a)}

\* RunShell returns what the command did: done <- c.Wait(), a failed
\* c.Start(), or the 24 hour guard (which a shorter timeout precedes)
ExecOutcomes(j) ==
    {"nil", "exit"} \cup
    (IF j.Timeout = 0 \/ j.Timeout > 24 * Hour THEN {"guard-timeout"} ELSE {})

ExecReturn(s) ==
    /\ inv[s].pc = "exec"
    /\ \E err \in ExecOutcomes(prog[inv[s].job]) :
         \E r \in AfterExec(inv[s], err) : inv' = [inv EXCEPT ![s] = r]
    /\ UNCHANGED <<prog, zoneFold, pc, now, items, busy, cancelled, event, preview>>

\* RunShell's case <-ctx.Done(): kill, "timeout/canceled"
ExecCtxDone(s) ==
    /\ inv[s].pc = "exec"
    /\ inv[s].ctxDone
    /\ \E r \in AfterExec(inv[s], "timeout/canceled") : inv' = [inv EXCEPT ![s] = r]
    /\ UNCHANGED <<prog, zoneFold, pc, now, items, busy, cancelled, event, preview>>

\* The deadline of context.WithTimeout(ctx, j.Timeout) passes; the context
\* of an attempt lives on through the backoff sleep that follows it.
TimeoutExpire(s) ==
    /\ inv[s].pc \in {"exec", "backoff"}
    /\ prog[inv[s].job].Timeout > 0
    /\ ~inv[s].ctxDone
    /\ inv' = [inv EXCEPT ![s].ctxDone = TRUE, ![s].timedOut = TRUE]
    /\ UNCHANGED <<prog, zoneFold, pc, now, items, busy, cancelled, event, preview>>

\* The backoff select, case <-runCtx.Done(): return
BackoffCtxDone(s) ==
    /\ inv[s].pc = "backoff"
    /\ inv[s].ctxDone
    /\ inv' = [inv EXCEPT ![s].pc = "returned", ![s].result = "ctxdone"]
    /\ UNCHANGED <<prog, zoneFold, pc, now, items, busy, cancelled, event, preview>>

\* The backoff select, case <-time.After(sleep): the next attempt, with a
\* context of its own.  A context that is done before the sleep has passed
\* wins the select; with no sleep at all either case may.
BackoffTimer(s) ==
    /\ inv[s].pc = "backoff"
    /\ ~inv[s].ctxDone \/ inv[s].sleep = 0
    /\ inv' = [inv EXCEPT ![s].pc = "exec", ![s].calls = @ + 1,
                          ![s].ctxDone = cancelled, ![s].sleep = 0]
    /\ UNCHANGED <<prog, zoneFold, pc, now, items, busy, cancelled, event, preview>>

\* A goroutine that ends without clearing the flag of its job
Release_keepsFlag(s) ==
    /\ inv[s].pc = "returned"
    /\ inv' = [inv EXCEPT ![s] = Free]
    /\ UNCHANGED <<prog, zoneFold, pc, now, items, busy, cancelled, event, preview>>

\* The deferred function of the goroutine: delete(e.busy, j.Name)
Release(s) ==
    /\ inv[s].pc = "returned"
    /\ busy' = busy \ {prog[inv[s].job].Name}
    /\ inv' = [inv EXCEPT ![s] = Free]
    /\ UNCHANGED <<prog, zoneFold, pc, now, items, cancelled, event, preview>>

\* The caller of Engine.Run cancels ctx; every context derived from it is
\* done with it.
Cancel ==
    /\ ~cancelled
    /\ cancelled' = TRUE
    /\ inv' = [s \in Slots |-> IF inv[s].pc = "free" THEN inv[s]
                               ELSE [inv[s] EXCEPT !.ctxDone = TRUE]]
    /\ UNCHANGED <<prog, zoneFold, pc, now, items, busy, event, preview>>

\* ----------------------------------------------------------- engine

NoEvent == [kind |-> "none", job |-> 0, at |-> 0, replanFailed |-> FALSE]
PreviewOff == [st |-> "off", expr |-> <<>>, n |-> 0, from |-> 0, t |-> 0, out |-> <<>>]

\* The initial planning loop of Engine.Run: the outcome of NextRun for each
\* job, and the first job whose outcome is not an instant (0 when all are).
Planned == [i \in 1..Len(prog) |-> NextRun(prog[i].Schedule, now)]

\* Startup planning that looks at the first job only
FirstUnplanned_firstOnly(planned) ==
    IF Len(prog) = 0 THEN 0 ELSE IF planned[1].kind = "ok" THEN 0 ELSE 1

\* The first job whose outcome is not an instant (0 when all are)
FirstUnplanned(planned) ==
    IF \A i \in 1..Len(prog) : planned[i].kind = "ok" THEN 0
    ELSE CHOOSE i \in 1..Len(prog) :
            planned[i].kind # "ok" /\ \A k \in 1..(i - 1) : planned[k].kind = "ok"

\* where Engine.Run is once a call of NextRun ended as kind
Ended(kind) ==
    CASE kind = "err" -> "failed"
      [] kind = "hang" -> "hung"
      [] kind = "panic" -> "panicked"

\* Startup planning that leaves out the jobs NextRun fails on
Plan_skipsUnplanned ==
    /\ pc = "plan"
    /\ \E planned \in {Planned} :
         items' = SelectSeq([i \in 1..Len(prog) |->
                                [next |-> IF planned[i].kind = "ok" THEN planned[i].t
                                          ELSE MinInstant - 1]],
                            LAMBDA x : x.next >= MinInstant)
    /\ pc' = "loop"
    /\ UNCHANGED <<prog, zoneFold, now, busy, cancelled, inv, event, preview>>

\* The initial planning of Engine.Run: an item per job, or the first failure
Plan ==
    /\ pc = "plan"
    /\ \E planned \in {Planned} : \E bad \in {FirstUnplanned(planned)} :
         IF bad = 0
         THEN /\ items' = [i \in 1..Len(prog) |-> [next |-> planned[i].t]]
              /\ pc' = "loop"
         ELSE /\ items' = items
              /\ pc' = Ended(planned[bad].kind)
    /\ UNCHANGED <<prog, zoneFold, now, busy, cancelled, inv, event, preview>>

\* A scan that moves on to a later item of equal instant
RECURSIVE Scan_lastMin(_, _)
Scan_lastMin(i, soon) ==
    IF i > Len(items) THEN soon
    ELSE IF items[i].next <= items[soon].next THEN Scan_lastMin(i + 1, i)
    ELSE Scan_lastMin(i + 1, soon)

\* "find earliest": the scan from index i on, soon being the earliest so far
RECURSIVE Scan(_, _)
Scan(i, soon) ==
    IF i > Len(items) THEN soon
    ELSE IF items[i].next < items[soon].next THEN Scan(i + 1, i)
    ELSE Scan(i + 1, soon)
Soon == Scan(1, 1)

\* An engine that never consults the busy set
IsBusy_never(j) == FALSE

\* An engine that honours the busy flag for overlap=skip only
IsBusy_skipOnly(j) == j.Name \in busy /\ j.Overlap = "skip"

\* e.busy[j.Name]
IsBusy(j) == j.Name \in busy

\* The lowest slot no goroutine occupies (0 when there is none)
FreeSlot ==
    IF \A s \in Slots : inv[s].pc # "free" THEN 0
    ELSE CHOOSE s \in Slots : inv[s].pc = "free" /\ \A k \in 1..(s - 1) : inv[k].pc # "free"

\* go func(j dsl.Job) { ... e.runOnce(ctx, j) }(j)
Go(i) == IF FreeSlot = 0 THEN inv ELSE [inv EXCEPT ![FreeSlot] = Started(i)]

\* "schedule next": the outcome r of NextRun, failing which a minute from now
Replanned(r, at) == IF r.kind = "ok" THEN r.t ELSE Add(at, Minute)

\* The body of the loop from "overlap policy" on, for the item soon, with
\* the clock at `at`: skip or dispatch, then schedule the next occurrence.
Fire(soon, at) ==
    \E j \in {prog[soon]} :
    \E r \in {NextRun(j.Schedule, Add(items[soon].next, Second))} :
        /\ IF IsBusy(j)
           THEN /\ event' = [kind |-> IF j.Overlap = "skip" THEN "skip"
                                      ELSE "skip-not-implemented",
                             job |-> soon, at |-> items[soon].next,
                             replanFailed |-> r.kind = "err"]
                /\ UNCHANGED <<busy, inv>>
           ELSE /\ event' = [kind |-> "dispatch", job |-> soon, at |-> items[soon].next,
                             replanFailed |-> r.kind = "err"]
                /\ busy' = busy \cup {j.Name}
                /\ inv' = Go(soon)
        /\ IF r.kind \in {"hang", "panic"}
           THEN pc' = Ended(r.kind) /\ items' = items
           ELSE pc' = "loop" /\ items' = [items EXCEPT ![soon].next = Replanned(r, at)]

\* The top of the loop: with no item, items[soon] is out of range; an item
\* that is due fires at once; otherwise Run blocks in the select.
LoopTop ==
    /\ pc = "loop"
    /\ IF Len(items) = 0
       THEN pc' = "panicked" /\ UNCHANGED <<items, busy, inv, event>>
       ELSE \E soon \in {Soon} :
              IF items[soon].next - now > 0
              THEN pc' = "sleep" /\ UNCHANGED <<items, busy, inv, event>>
              ELSE Fire(soon, now)
    /\ UNCHANGED <<prog, zoneFold, now, cancelled, preview>>

\* select, case <-ctx.Done(): return ctx.Err()
SleepCtxDone ==
    /\ pc = "sleep"
    /\ cancelled
    /\ pc' = "ctxerr"
    /\ UNCHANGED <<prog, zoneFold, now, items, busy, cancelled, inv, event, preview>>

\* select, case <-time.After(wait): the item fires.  A context that is done
\* before the wait has passed wins the select.
SleepTimer ==
    /\ pc = "sleep"
    /\ ~cancelled
    /\ \E soon \in {Soon} :
         /\ items[soon].next <= MaxTime
         /\ now' = items[soon].next
         /\ Fire(soon, items[soon].next)
    /\ UNCHANGED <<prog, zoneFold, cancelled, preview>>

\* ------------------------------------------------------------ specs

StartTimes == {0}

Init ==
    /\ prog \in Programs
    /\ zoneFold \in BOOLEAN
    /\ pc = "plan"
    /\ now \in StartTimes
    /\ items = <<>>
    /\ busy = {}
    /\ cancelled = FALSE
    /\ inv = [s \in Slots |-> Free]
    /\ event = NoEvent
    /\ preview = PreviewOff

Runner(s) ==
    \/ ExecReturn(s)
    \/ ExecCtxDone(s)
    \/ TimeoutExpire(s)
    \/ BackoffCtxDone(s)
    \/ BackoffTimer(s)
    \/ Release(s)

Next ==
    \/ Plan
    \/ LoopTop
    \/ SleepCtxDone
    \/ SleepTimer
    \/ Cancel
    \/ \E s \in Slots : Runner(s)

Spec == Init /\ [][Next]_vars

\* ---------------------------------------------- the `next` preview

At(day, hh, mm) == day * Day + hh * Hour + mm * Minute

X_1h == K_every \o <<"1", "h">>
X_2d == K_every \o <<"2", "d">>
X_30s == K_every \o <<"3", "0", "s">>
X_upper5m == <<"E", "v", "e", "r", "y", " ", "5", "M">>
X_at0830 == K_at \o <<"0", "8", ":", "3", "0">>
X_at2599 == K_at \o <<"2", "5", ":", "9", "9">>
X_day1430 == K_every_day_at \o <<"1", "4", ":", "3", "0">>
X_weekday0900 == K_every_weekday_at \o <<"0", "9", ":", "0", "0">>
X_weekday0800 == K_every_weekday_at \o <<"0", "8", ":", "0", "0">>
X_monday0800 ==
    K_every \o <<"m", "o", "n", "d", "a", "y", " ">> \o K_at \o <<"0", "8", ":", "0", "0">>
X_6h_start == K_every \o <<"6", "h">> \o K_starting_at \o <<"0", "0", ":", "0", "0">>
X_2h_start0930 == K_every \o <<"2", "h">> \o K_starting_at \o <<"0", "9", ":", "3", "0">>
X_0s_start == K_every \o <<"0", "s">> \o K_starting_at \o <<"1", "2", ":", "0", "0">>
X_none_start == K_every \o K_starting_at \o <<"0", "0", ":", "0", "0">>

\* The schedule texts the calculator is run on
PreviewExprs ==
    { X_5m, X_1h, X_2d, X_30s, X_0s, X_neg5m, X_upper5m, X_week, X_monday0800,
      X_at0830, X_at2599, X_day1430, X_weekday0900, X_weekday0800,
      X_at0830 \o Z_paris, X_at0830 \o Z_unknown, X_day1430 \o Z_unknown,
      X_weekday0900 \o Z_unknown,
      X_6h_start, X_6h_start \o Z_paris, X_6h_start \o Z_unknown, X_2h_start0930,
      X_0s_start, X_none_start }

\* The reference instants: -from, or time.Now()
PreviewFroms ==
    { At(0, 0, 0), At(0, 8, 0), At(0, 8, 30), At(0, 9, 0), At(0, 9, 0) + 1,
      At(0, 14, 30),
      At(4, 23, 30), At(5, 8, 0), At(6, 12, 0) }

\* -n
MaxPreview == 3

PreviewInit ==
    /\ prog = <<>>
    /\ zoneFold \in BOOLEAN
    /\ pc = "off"
    /\ now = 0
    /\ items = <<>>
    /\ busy = {}
    /\ cancelled = FALSE
    /\ inv = [s \in Slots |-> Free]
    /\ event = NoEvent
    /\ preview \in {[st |-> "run", expr |-> e, n |-> MaxPreview, from |-> f, t |-> f,
                     out |-> <<>>] : e \in PreviewExprs, f \in PreviewFroms}

\* One turn of nextCmd's loop for a job: print the next occurrence and go on
\* from a second after it, or print the error and stop.
PreviewStep ==
    /\ preview.st = "run"
    /\ \E r \in {NextRun(preview.expr, preview.t)} :
         IF r.kind = "ok"
         THEN preview' = [preview EXCEPT
                             !.out = Append(@, [from |-> preview.t, next |-> r.t]),
                             !.t = Add(r.t, Second),
                             !.st = IF Len(preview.out) + 1 = preview.n THEN "done" ELSE "run"]
         ELSE preview' = [preview EXCEPT !.st = Ended(r.kind)]
    /\ UNCHANGED <<prog, zoneFold, pc, now, items, busy, cancelled, inv, event>>

PreviewSpec == PreviewInit /\ [][PreviewStep]_vars

\* ------------------------------------------------- one invocation

\* The jobs runOnce is run on: retry, backoff and timeout lines that
\* dsl.Parse accepts
RunnerJobs ==
    { Job("r", X_5m, 3, 5 * Second, 30 * Second, 30 * Second, "skip"),
      Job("r", X_5m, 2, 1 * Second, 5 * Second, 10 * Second, "skip"),
      Job("r", X_5m, 0, 0, 0, 0, "skip"),
      Job("r", X_5m, 2, 0, 0, 0, "skip"),
      Job("r", X_5m, 1, 0, 5 * Second, 10 * Second, "skip"),
      Job("r", X_5m, 7, 1 * Second, 5 * Minute, 0, "skip") }

\* Engine.Run has planned the one job, slept until it was due and started
\* its goroutine.
RunnerInit ==
    /\ prog \in {<<j>> : j \in RunnerJobs}
    /\ zoneFold = FALSE
    /\ pc = "loop"
    /\ now = 5 * Minute
    /\ items = <<[next |-> 5 * Minute + Second + 5 * Minute]>>
    /\ busy = {"r"}
    /\ cancelled = FALSE
    /\ inv = [s \in Slots |-> IF s = 1 THEN Started(1) ELSE Free]
    /\ event = [kind |-> "dispatch", job |-> 1, at |-> 5 * Minute, replanFailed |-> FALSE]
    /\ preview = PreviewOff

RunnerNext == Cancel \/ \E s \in Slots : Runner(s)

RunnerSpec == RunnerInit /\ [][RunnerNext]_vars

\* -------------------------------------------------------- fairness

LivePrograms ==
    {<<j>> : j \in {Job("a", X_5m, 1, 1 * Second, 2 * Second, 0, "skip"),
                    Job("b", X_10m, 0, 0, 0, 10 * Second, "queue"),
                    Job("d", X_neg5m, 0, 0, 0, 0, "skip"),
                    Job("g", X_5m, 2, 0, 2 * Second, 0, "skip")}}
    \cup {<<Job("d", X_neg5m, 0, 0, 0, 0, "skip"),
             Job("a", X_5m, 1, 1 * Second, 2 * Second, 0, "skip")>>}

LiveInit ==
    /\ prog \in LivePrograms
    /\ zoneFold = FALSE
    /\ pc = "plan"
    /\ now \in StartTimes
    /\ items = <<>>
    /\ busy = {}
    /\ cancelled = FALSE
    /\ inv = [s \in Slots |-> Free]
    /\ event = NoEvent
    /\ preview = PreviewOff

\* The goroutine of Engine.Run and those of the invocations are scheduled;
\* a command ends (execer's guard kills it after 24 hours).
Fairness ==
    /\ WF_vars(Plan)
    /\ WF_vars(LoopTop)
    /\ WF_vars(SleepCtxDone)
    /\ WF_vars(SleepTimer)
    /\ \A s \in Slots : WF_vars(Runner(s))

FairSpec == LiveInit /\ [][Next]_vars /\ Fairness

\* ----------------------------------------------------------- claims

\* Slot s holds an invocation that has not returned: it waits for the
\* Executor or sleeps between two attempts.
InFlight(s) == inv[s].pc \in {"exec", "backoff"}
Occupied == {s \in Slots : inv[s].job # 0}
JobOf(s) == prog[inv[s].job]

\* C1: in every state of Engine.Run at most one invocation per job name has
\* been started and not released, each under its busy flag, so there are
\* never more invocations than jobs.
C1_MutualExclusion ==
    /\ \A s \in Occupied : \A u \in Occupied : JobOf(s).Name = JobOf(u).Name => s = u
    /\ \A s \in Occupied : JobOf(s).Name \in busy
    /\ Cardinality(Occupied) <= Len(prog)

\* An occurrence of a job fired while its invocation was in flight and was
\* skipped.
C1_Witness ==
    /\ event.kind \in {"skip", "skip-not-implemented"}
    /\ \E s \in Slots : InFlight(s) /\ inv[s].job = event.job

\* C2: every instant NextRun returns is strictly after the reference
\* instant it was given.
C2_StrictlyAfter ==
    \A k \in 1..Len(preview.out) : preview.out[k].next > preview.out[k].from

\* C3: with a timeout and retries left, runOnce never ends on an attempt
\* that its timeout stopped: it sleeps and calls the Executor again, so it
\* can only have returned after such an attempt with the retries used up.
C3_TimeoutIsRetried ==
    \A s \in Occupied :
        ( /\ inv[s].pc = "returned"
          /\ ~cancelled
          /\ inv[s].lastErr = "timeout/canceled"
          /\ JobOf(s).Timeout > 0
          /\ JobOf(s).RetryN >= 1 )
        => inv[s].attempt > JobOf(s).RetryN

\* base of the backoff after the attempt-th failure, as the specification
\* writes it
SpecBase(j, attempt) ==
    LET lo == IF j.BackoffA = 0 /\ j.BackoffB = 0 THEN 1 * Second ELSE j.BackoffA
        hi == IF j.BackoffA = 0 /\ j.BackoffB = 0 THEN 30 * Second ELSE j.BackoffB
    IN  IF lo * 2 ^ (IF attempt < 6 THEN attempt ELSE 6) < hi
        THEN lo * 2 ^ (IF attempt < 6 THEN attempt ELSE 6)
        ELSE hi

\* C4, as stated: the sleep is below base/2 + base/4.
C4_HalfOpen ==
    \A s \in Occupied :
        inv[s].pc = "backoff" =>
            /\ SpecBase(JobOf(s), inv[s].attempt) \div 2 <= inv[s].sleep
            /\ inv[s].sleep < SpecBase(JobOf(s), inv[s].attempt) \div 2
                              + SpecBase(JobOf(s), inv[s].attempt) \div 4

\* C4, amended: after the attempt-th failure, 1 <= attempt <= retryCount,
\* the sleep d satisfies base/2 <= d <= base/2 + base/4; with 5s..30s the
\* first sleep lies in [5s, 7.5s].
C4_Closed ==
    \A s \in Occupied :
        inv[s].pc = "backoff" =>
            /\ inv[s].attempt >= 1
            /\ inv[s].attempt <= JobOf(s).RetryN
            /\ SpecBase(JobOf(s), inv[s].attempt) \div 2 <= inv[s].sleep
            /\ inv[s].sleep <= SpecBase(JobOf(s), inv[s].attempt) \div 2
                               + SpecBase(JobOf(s), inv[s].attempt) \div 4
            /\ (JobOf(s).BackoffA = 5 * Second /\ JobOf(s).BackoffB = 30 * Second
                    /\ inv[s].attempt = 1)
               => (5 * Second <= inv[s].sleep /\ 2 * inv[s].sleep <= 15 * Second)

\* The first sleep of the 5s..30s job is the whole 7.5s.
C4_Witness ==
    \E s \in Occupied :
        /\ inv[s].pc = "backoff"
        /\ JobOf(s).BackoffA = 5 * Second
        /\ JobOf(s).BackoffB = 30 * Second
        /\ inv[s].attempt = 1
        /\ 2 * inv[s].sleep = 15 * Second

\* C5: while no context is cancelled and no timeout has expired, an
\* invocation has called the Executor between 1 and retryCount + 1 times,
\* has returned as soon as a call succeeded, and returns after a failed
\* call only as a terminal failure, after exactly retryCount + 1 calls.
C5_RetryCount ==
    \A s \in Occupied :
        (~cancelled /\ ~inv[s].timedOut) =>
            /\ inv[s].calls >= 1
            /\ inv[s].calls <= JobOf(s).RetryN + 1
            /\ inv[s].lastErr = "nil" => (inv[s].pc = "returned" /\ inv[s].result = "success")
            /\ (inv[s].pc = "returned" /\ inv[s].lastErr # "nil") =>
                   (inv[s].result = "abandon" /\ inv[s].calls = JobOf(s).RetryN + 1)

\* An invocation with retries ended as a terminal failure.
C5_Witness ==
    \E s \in Occupied :
        /\ ~cancelled /\ ~inv[s].timedOut
        /\ inv[s].pc = "returned"
        /\ inv[s].result = "abandon"
        /\ JobOf(s).RetryN >= 2
        /\ inv[s].calls = JobOf(s).RetryN + 1

\* C6: when NextRun rejects the schedule of any job, Engine.Run goes from
\* planning straight to returning the error, and it returns a planning
\* error only then; while it plans and once it has returned the error no
\* invocation has been started, the busy set is empty and no item exists.
C6_AllOrNothing ==
    /\ [](pc \in {"plan", "failed"} =>
             /\ Occupied = {}
             /\ busy = {}
             /\ event = NoEvent
             /\ items = <<>>)
    /\ [][(pc = "plan" /\ pc' # "plan") =>
             (pc' = "failed") =
                 (\E i \in 1..Len(prog) : NextRun(prog[i].Schedule, now).kind = "err")]_vars
    /\ [][pc = "failed" => pc' = "failed"]_vars

\* Run returned the error of the second job; the first job's schedule is
\* fine.
C6_Witness ==
    /\ pc = "failed"
    /\ Len(prog) = 2
    /\ NextRun(prog[1].Schedule, now).kind = "ok"
    /\ NextRun(prog[2].Schedule, now).kind = "err"
    /\ Occupied = {}

\* C7: a job whose schedule names an unknown zone never gets past startup
\* planning.
C7_UnknownZoneAborts ==
    (\E i \in 1..Len(prog) : HasSuffix(prog[i].Schedule, Z_unknown)) =>
        pc \in {"plan", "failed"}

\* C8: Engine.Run ends only by returning the planning error or the
\* context's error: it does not end abnormally.
C8_OnlyTwoExits == pc # "panicked"

\* C9: once the root context is cancelled, Engine.Run leaves its loop and
\* returns the context's error.
C9_CancelLeadsToReturn == (cancelled /\ pc \in {"loop", "sleep"}) ~> (pc = "ctxerr")

\* The interval of a pure interval schedule
IntervalOf(expr) == parseDur(TrimPrefix(ToLower(TrimSpace(expr)), K_every)).d

\* C10: two consecutive planned fire instants of a pure interval job with a
\* positive interval differ by exactly the interval.
C10_FiresEveryInterval ==
    [][\A i \in 1..Len(items) :
          ( /\ Len(items') = Len(items)
            /\ items'[i].next # items[i].next
            /\ IsInterval(ToLower(TrimSpace(prog[i].Schedule)))
            /\ IntervalOf(prog[i].Schedule) > 0 )
          => items'[i].next - items[i].next = IntervalOf(prog[i].Schedule)]_vars


\* The interval `every <N><unit>` stands for, N times the unit with a day of
\* 24 hours, for the interval texts of PreviewExprs
SpecIntervals ==
    { <<X_5m, 5 * Minute>>, <<X_upper5m, 5 * Minute>>, <<X_1h, 1 * Hour>>,
      <<X_2d, 2 * 24 * Hour>>, <<X_30s, 30 * Second>>, <<X_0s, 0>> }

\* C11: for a pure interval `every <N><unit>` NextRun returns no error and
\* exactly the reference instant plus N units, a day being 24 hours.
C11_PureInterval ==
    \A p \in SpecIntervals :
        preview.expr = p[1] =>
            /\ preview.st \in {"run", "done"}
            /\ \A k \in 1..Len(preview.out) :
                   preview.out[k].next = preview.out[k].from + p[2]

\* `every 2d` computed from each instant of a whole preview
C11_Witness ==
    /\ preview.expr = X_2d
    /\ preview.st = "done"
    /\ Len(preview.out) = MaxPreview
    /\ preview.out[1].next = preview.out[1].from + 48 * Hour


\* The clock texts of PreviewExprs without a zone: hour, minute, and whether
\* only Monday to Friday count
SpecClocks ==
    { [expr |-> X_at0830, hh |-> 8, mm |-> 30, workdays |-> FALSE],
      [expr |-> X_day1430, hh |-> 14, mm |-> 30, workdays |-> FALSE],
      [expr |-> X_weekday0900, hh |-> 9, mm |-> 0, workdays |-> TRUE],
      [expr |-> X_weekday0800, hh |-> 8, mm |-> 0, workdays |-> TRUE] }

\* t is an occurrence of clock c: its time of day is hh:mm and, for the
\* weekday form, its day is one of the first five of the week (the epoch is
\* a Monday 00:00)
IsOccurrence(c, t) ==
    /\ t % (24 * Hour) = c.hh * Hour + c.mm * Minute
    /\ c.workdays => (t \div (24 * Hour)) % 7 <= 4

\* C12: for the clock forms NextRun returns the earliest occurrence of HH:MM
\* (Monday to Friday for the weekday form) strictly after the reference
\* instant; 08:00 gives 08:30 the same day, 09:00 the next day, and a
\* Saturday 08:00 gives the following Monday 08:00.
C12_ClockTime ==
    \A c \in SpecClocks :
        preview.expr = c.expr =>
            /\ preview.st \in {"run", "done"}
            /\ \A k \in 1..Len(preview.out) :
                   /\ IsOccurrence(c, preview.out[k].next)
                   /\ preview.out[k].next > preview.out[k].from
                   /\ \A n \in 1..7 :
                          \/ preview.out[k].next - n * 24 * Hour <= preview.out[k].from
                          \/ ~IsOccurrence(c, preview.out[k].next - n * 24 * Hour)
                   /\ (c.expr = X_at0830 /\ preview.out[k].from = At(0, 8, 0))
                          => preview.out[k].next = At(0, 8, 30)
                   /\ (c.expr = X_at0830 /\ preview.out[k].from = At(0, 9, 0))
                          => preview.out[k].next = At(1, 8, 30)
                   /\ (c.expr = X_weekday0800 /\ preview.out[k].from = At(5, 8, 0))
                          => preview.out[k].next = At(7, 8, 0)

\* From Saturday 08:00 the weekday form lands on Monday 08:00.
C12_Witness ==
    /\ preview.expr = X_weekday0800
    /\ Len(preview.out) >= 1
    /\ preview.out[1].from = At(5, 8, 0)
    /\ preview.out[1].next = At(7, 8, 0)


\* The expressions of the README's table of supported schedule expressions
ReadmeExprs == {X_5m, X_1h, X_day1430, X_weekday0900, X_monday0800, X_week}

\* C13: NextRun returns an instant, and no error, for every expression of
\* the README's table.
C13_ReadmeAccepted ==
    preview.expr \in ReadmeExprs => preview.st \in {"run", "done"}


\* C14: the busy set holds exactly the names of the jobs that have an
\* invocation between its dispatch and the end of its goroutine, through
\* every attempt and backoff sleep and whatever the way runOnce returned; a
\* name leaves the set with its invocation, so the job can be dispatched
\* again.
C14_BusyLifetime ==
    /\ busy = {JobOf(s).Name : s \in Occupied}
    /\ \A s \in Slots : (inv[s].pc = "free") = (inv[s].job = 0)

\* An invocation has come and gone: the engine has dispatched a job, its
\* goroutine has ended, and the set is empty again.
C14_Witness ==
    /\ event.kind = "dispatch"
    /\ pc \in {"loop", "sleep"}
    /\ Occupied = {}
    /\ busy = {}


\* A step of Engine.Run in which an item fires (the step re-plans an item
\* or records an event) while the name of its job is in the busy set
FiresWhileBusy ==
    /\ Len(items) > 0
    /\ Len(items') = Len(items)
    /\ event' # event \/ items' # items
    /\ event'.job \in 1..Len(prog)
    /\ prog[event'.job].Name \in busy

\* C15: when an occurrence fires while its job is busy then, whatever the
\* overlap policy, the engine records a skip, starts nothing, leaves the
\* busy set and every invocation as they are, and re-plans that item, and
\* only that item, from a second after the fired instant.
C15_CollisionIsNoOp ==
    [][FiresWhileBusy =>
          /\ event'.kind \in {"skip", "skip-not-implemented"}
          /\ event'.at = items[event'.job].next
          /\ inv' = inv
          /\ busy' = busy
          /\ pc' = "loop"
          /\ \A i \in 1..Len(items) : i # event'.job => items'[i] = items[i]
          /\ \E r \in {NextRun(prog[event'.job].Schedule, items[event'.job].next + Second)} :
                 r.kind = "ok" /\ items'[event'.job].next = r.t]_vars

\* An occurrence of a cancel-prev job was skipped while an invocation under
\* its name was in flight, and the item has been re-planned.
C15_Witness ==
    /\ event.kind = "skip-not-implemented"
    /\ prog[event.job].Overlap = "cancel-prev"
    /\ \E s \in Occupied : InFlight(s) /\ JobOf(s).Name = prog[event.job].Name
    /\ items[event.job].next > event.at


\* A step of Engine.Run in which an item fires
Fires ==
    /\ Len(items) > 0
    /\ Len(items') = Len(items)
    /\ event' # event \/ items' # items
    /\ event'.job \in 1..Len(prog)

\* C16: the item that fires has the least next-fire instant of all items
\* and, among the items of that instant, the lowest index.
C16_SelectionOrder ==
    [][Fires =>
          /\ event'.at = items[event'.job].next
          /\ \A i \in 1..Len(items) :
                 /\ items[event'.job].next <= items[i].next
                 /\ items[i].next = items[event'.job].next => event'.job <= i]_vars

\* The first of two items planned for the same instant has fired; the
\* second still waits with that instant.
C16_Witness ==
    /\ Len(items) = 2
    /\ event.kind # "none"
    /\ event.job = 1
    /\ items[2].next = event.at


\* C17: each time an item fires, its new next-fire instant is strictly
\* later than the instant that fired.
C17_ForwardProgress ==
    [][Fires => items'[event'.job].next > items[event'.job].next]_vars


\* C18: once startup planning has succeeded there is one item per job of
\* the Program, whatever fires, is skipped or fails, and a step changes no
\* item but the one that fires.  No re-planning fails (the errors of NextRun
\* depend on the text alone, and startup planning has accepted it), so no
\* item is ever moved to the fallback of a minute after the current time.
C18_FixedItems ==
    /\ [](pc \notin {"plan", "failed"} => Len(items) = Len(prog))
    /\ [](~event.replanFailed)
    /\ [][Len(items) > 0 =>
             /\ Len(items') = Len(items)
             /\ \A i \in 1..Len(items) : items'[i] # items[i] => i = event'.job]_vars

\* Two jobs, after an occurrence was skipped and an invocation ended as a
\* terminal failure: still two items.
C18_Witness ==
    /\ Len(prog) = 2
    /\ Len(items) = 2
    /\ event.kind \in {"skip", "skip-not-implemented"}
    /\ \E s \in Occupied : inv[s].result = "abandon"


\* The anchored texts of PreviewExprs without a zone: interval and anchor
SpecAnchored ==
    { [expr |-> X_6h_start, d |-> 6 * Hour, hh |-> 0, mm |-> 0],
      [expr |-> X_2h_start0930, d |-> 2 * Hour, hh |-> 9, mm |-> 30] }

\* HH:MM on the calendar date of from
AnchorOf(c, from) == (from \div (24 * Hour)) * 24 * Hour + c.hh * Hour + c.mm * Minute

C20_NoCallAfterCancel ==
    [][\A s \in Slots :
          (cancelled /\ inv[s].job # 0) => inv'[s].calls <= inv[s].calls]_vars

\* What holds of cancellation: an invocation in flight calls the Executor
\* again only out of a backoff sleep of length zero (a job with
\* backoffMin = 0 < backoffMax), never out of a sleep that takes time; and
\* every invocation in flight returns and its goroutine ends, which clears
\* its busy flag.
CancelEndsInvocations ==
    /\ [][\A s \in Slots :
             (cancelled /\ inv[s].job # 0 /\ inv'[s].calls > inv[s].calls) =>
                 /\ inv[s].pc = "backoff"
                 /\ inv[s].sleep = 0
                 /\ JobOf(s).BackoffA = 0
                 /\ JobOf(s).BackoffB > 0]_vars
    /\ \A s \in Slots : (cancelled /\ inv[s].job # 0) ~> (inv[s].job = 0)
    /\ \A n \in {"a", "b", "d", "g"} : (cancelled /\ n \in busy) ~> (n \notin busy)


\* C21: an occurrence is skipped only because an invocation of its own job
\* is in flight: whenever an item fires while the name of its job is in the
\* busy set, the invocation in flight under that name is one of that job.
C21_SkippedOnlyForItself ==
    [][FiresWhileBusy =>
          \E s \in Occupied :
              /\ JobOf(s).Name = prog[event'.job].Name
              /\ inv[s].job = event'.job]_vars


\* C22: NextRun ends for every expression and reference instant: no call
\* of it runs forever.
C22_NextRunTerminates == preview.st # "hung"


\* C23: while the root context is not cancelled every job of the Program
\* comes to fire: from the first turn of the loop, each item is eventually
\* the one selected.
C23_EveryJobFires ==
    \A i \in 1..MaxJobs :
        (pc = "loop" /\ event = NoEvent /\ i <= Len(prog)) ~> (cancelled \/ event.job = i)

====
